---- MODULE Spec2Model ----
(***************************************************************************)
(* Model of the human-in-the-loop MCP proxy of                            *)
(* packages/agent0/src/mcp-server/HITLProxy.ts.                            *)
(*                                                                         *)
(* The proxy runs on one JavaScript event loop: the code between two      *)
(* awaits of a handler runs without interleaving, so every action below   *)
(* is the stretch of a handler from one await to the next.  The approval  *)
(* channel (HITLApprovalService), the downstream MCP server and the       *)
(* notification transport are the environment: each of their replies is   *)
(* a nondeterministic choice over the outcomes the code distinguishes.    *)
(***************************************************************************)
EXTENDS Integers, FiniteSets, Sequences, TLC

(***************************************************************************)
(* Bounds of the model.                                                    *)
(***************************************************************************)
\* number of HIGH_RISK invocations of one run (each generates one taskId)
MaxTasks == 2
\* how far the wall clock advances, in ticks of TickMs
MaxTicks == 3
\* number of distinct values of the random suffix of a taskId
NRand == 2

(***************************************************************************)
(* Program constants.                                                      *)
(***************************************************************************)
\* while (Date.now() < (startTime + 10000))
WindowMs == 10000
\* await new Promise(r => setTimeout(r, 4000))
SleepMs == 4000

\* the clock is observed in steps of one sleep interval
TickMs == SleepMs
MaxNow == MaxTicks * TickMs

\* the handlers in flight at one time: the overlap of requests is pairwise
Reqs == {1, 2}
RandVals == 1..NRand

(***************************************************************************)
(* Static configuration: MCPServerMap.  The first entry is the one of the *)
(* source; the second stands for the "other server configs" and puts one  *)
(* name in both lists, the case the blocklist precedence is about.        *)
(***************************************************************************)
MCPServerMap ==
    [s \in {"todo-mcp-server", "overlap-mcp-server"} |->
        IF s = "todo-mcp-server"
        THEN [HighRiskTools |-> {"add_todos"}, BlockedTools |-> {"welcome_to_okta"}]
        ELSE [HighRiskTools |-> {"add_todos", "welcome_to_okta"},
              BlockedTools |-> {"welcome_to_okta"}]]

\* tool names a caller sends to callTool, and the opaque argument payloads
ToolNames == {"add_todos", "welcome_to_okta", "get_todos"}
ArgVals == {"x", "y"}
\* results the downstream server returns: a tool result, or one flagged isError
DownResults == {"res_ok", "res_toolerr"}

(***************************************************************************)
(* Values.                                                                 *)
(***************************************************************************)
\* `task-${Date.now()}-${Math.random().toString(36).substring(2, 6)}`
MkTaskId(t, rnd) == <<t, rnd>>
NoId == <<-1, 0>>
\* a taskId no invocation ever generated
UnknownId == <<-1, 1>>

\* the out-of-band code of the n-th approval request the channel accepts to
\* start: an opaque token naming that request.  NoCode is the absent (falsy) code.
OobCode(n) == <<"oob", n>>
NoCode == OobCode(0)
Serial(code) == code[2]

NoTask == [toolName |-> "none", toolArgs |-> "none", status |-> "none",
           hitlOobCode |-> NoCode]

\* a call-tool result: kind names the text, the other fields are the payload
Result(kind, isError, status, tool, taskId, body) ==
    [kind |-> kind, isError |-> isError, status |-> status, tool |-> tool,
     taskId |-> taskId, body |-> body]
NoResult == Result("undefined", FALSE, "none", "none", NoId, "none")

\* the downstreamClient.callTool({name, arguments}) a handler is awaiting
DownCall(toolName, toolArgs) == [name |-> toolName, arguments |-> toolArgs]
NoCall == DownCall("none", "none")

VARIABLES
    serverName,     \* downstreamServerName, fixed at construction
    now,            \* Date.now()
    pendingTasks,   \* the Map taskId -> task
    req,            \* the inbound requests and the position of their handlers
    issued,         \* history: the taskIds generated so far, in order
    taskLog         \* history: per approval request, the downstream calls made
                    \*          for its task and the outcomes returned for it

vars == <<serverName, now, pendingTasks, req, issued, taskLog>>

Range(f) == {f[i] : i \in DOMAIN f}

IdleReq ==
    [pc |-> "idle", name |-> "none", args |-> "none", argOk |-> TRUE,
     token |-> FALSE, taskId |-> NoId, startTime |-> 0, wakeAt |-> 0,
     task |-> NoTask, queried |-> NoCode, reply |-> "none", call |-> NoCall,
     downOut |-> "none", sendOut |-> "none",
     lastresult |-> NoResult, response |-> NoResult,
     seen |-> {}, nth |-> 0, fresh |-> TRUE, nSet |-> 0, grew |-> FALSE,
     miss |-> FALSE, nQuery |-> 0, nMiss |-> 0, nChan |-> 0, qDown |-> 0,
     nDown |-> 0, nSend |-> 0]

Init ==
    /\ serverName \in DOMAIN MCPServerMap
    /\ now = 0
    /\ pendingTasks = [t \in {} |-> NoTask]
    /\ req = [r \in Reqs |-> IdleReq]
    /\ issued = << >>
    /\ taskLog = [n \in 1..MaxTasks |-> [execs |-> 0, outcomes |-> {}]]

(***************************************************************************)
(* The results the handlers build.                                         *)
(***************************************************************************)
\* callTool, blocked tool
BlockedResult(toolName) == Result("blocked", TRUE, "none", toolName, NoId, "none")
\* variant: the setup error is returned without the isError flag
SetupFailedResult_NoFlag == Result("setup_failed", FALSE, "none", "none", NoId, "none")
\* callTool, sendApprovalRequest threw
SetupFailedResult == Result("setup_failed", TRUE, "none", "none", NoId, "none")
\* callTool, the pending receipt
ReceiptResult(toolName, taskId) ==
    Result("receipt", FALSE, "PENDING_APPROVAL_POLL", toolName, taskId, "none")
\* what downstreamClient.callTool resolves to: the downstream server's own result
DownstreamResult(body) ==
    Result("downstream", body = "res_toolerr", "none", "none", NoId, body)
\* callTool, after the catch of the forwarded call
NullResult == Result("null", FALSE, "none", "none", NoId, "none")
\* the handler's promise rejected: the request carries no result of the proxy
ThrownResult == Result("exception", FALSE, "none", "none", NoId, "none")
\* check_task_status without a string taskId
BadTaskIdResult == Result("bad_taskid", FALSE, "none", "none", NoId, "none")
\* list_high_risk_tools
HighRiskListResult == Result("high_risk_list", FALSE, "none", "none", NoId, "none")
\* handleTaskStatusCheck, no task (or no code) under the taskId
NotFoundResult(taskId) == Result("not_found", FALSE, "none", "none", taskId, "none")
\* variant: the downstream result is returned as it came (`return toolsResult`)
CompletedResult_Raw(toolsResult, toolName) == toolsResult
\* handleTaskStatusCheck, { ...toolsResult, structuredContent: {COMPLETED, tool} }
CompletedResult(toolsResult, toolName) ==
    [toolsResult EXCEPT !.kind = "completed", !.status = "COMPLETED", !.tool = toolName]
\* handleTaskStatusCheck, not approved and no error
PendingResult(taskId, toolName) ==
    Result("pending", FALSE, "PENDING", toolName, taskId, "none")
\* handleTaskStatusCheck, the catch
DeniedResult(taskId) == Result("denied", TRUE, "none", "none", taskId, "none")

(***************************************************************************)
(* The Map operations on pendingTasks.                                     *)
(***************************************************************************)
MapSet(m, k, v) == [t \in (DOMAIN m) \cup {k} |-> IF t = k THEN v ELSE m[t]]
MapDelete(m, k) == [t \in (DOMAIN m) \ {k} |-> m[t]]
MapGet(m, k) == IF k \in DOMAIN m THEN m[k] ELSE NoTask

(***************************************************************************)
(* callTool: the risk gate.                                                *)
(***************************************************************************)
Config == MCPServerMap[serverName]

\* BlockedTools.includes(toolName)
IsBlocked(toolName) == toolName \in Config.BlockedTools
\* HighRiskTools.includes(toolName)
IsHighRisk(toolName) == toolName \in Config.HighRiskTools

\* variant: the high-risk test is made before the blocked test
Classify_HighRiskFirst(toolName) ==
    IF IsHighRisk(toolName) THEN "HIGH_RISK"
    ELSE IF IsBlocked(toolName) THEN "BLOCKED"
    ELSE "NORMAL"
\* the order of the two tests of callTool
Classify(toolName) ==
    IF IsBlocked(toolName) THEN "BLOCKED"
    ELSE IF IsHighRisk(toolName) THEN "HIGH_RISK"
    ELSE "NORMAL"

\* A handler's return value is written to the transport in the turn of the event
\* loop in which the handler returns, before any other message is handled: while
\* a response is undelivered nothing else runs.
Undelivered == \E s \in Reqs : req[s].pc = "done"

\* variant: the sleep of the polling loop holds the event loop (a busy wait)
At_SleepBlocks(r, pc) ==
    /\ req[r].pc = pc
    /\ ~Undelivered
    /\ \A s \in Reqs \ {r} : req[s].pc # "sleep"
\* the handler of request r is awaiting at position pc and the event loop is free
At(r, pc) == req[r].pc = pc /\ ~Undelivered

\* A request arrives on the next unused slot; generating tells whether it will
\* generate a taskId.  Requests overlap while a single taskId has been generated;
\* once there are more they arrive one after the other.
Quiet == \A s \in Reqs : req[s].pc = "idle"
NextSlot(r, generating) ==
    /\ At(r, "idle")
    /\ \A s \in Reqs : s < r => req[s].pc # "idle"
    /\ Quiet \/ Len(issued) + (IF generating THEN 1 ELSE 0) <= 1

\* the random suffixes worth telling apart at this clock value: those already
\* drawn at it, and one more
Suffixes == {k \in RandVals : \A j \in 1..(k - 1) : MkTaskId(now, j) \in Range(issued)}

Finish(q, res) == [q EXCEPT !.pc = "done", !.response = res]

\* CallToolRequestSchema handler, any name but the two synthetic ones: callTool up
\* to its first await
ReceiveTool(r, toolName, toolArgs, token, rnd) ==
    /\ NextSlot(r, Classify(toolName) = "HIGH_RISK")
    /\ LET q == [req[r] EXCEPT !.name = toolName, !.args = toolArgs, !.token = token]
           tier == Classify(toolName)
           taskId == MkTaskId(now, rnd)
       IN  CASE tier = "BLOCKED" ->
                 /\ req' = [req EXCEPT ![r] = Finish(q, BlockedResult(toolName))]
                 /\ UNCHANGED issued
             [] tier = "HIGH_RISK" ->
                 /\ Len(issued) < MaxTasks
                 /\ req' = [req EXCEPT ![r] =
                        [q EXCEPT !.pc = "send", !.taskId = taskId,
                                  !.nth = Len(issued) + 1,
                                  !.fresh = taskId \notin Range(issued),
                                  !.nSend = @ + 1]]
                 /\ issued' = Append(issued, taskId)
             [] OTHER ->
                 /\ req' = [req EXCEPT ![r] =
                        [q EXCEPT !.pc = "fwd", !.nDown = @ + 1,
                                  !.call = DownCall(toolName, toolArgs)]]
                 /\ UNCHANGED issued
    /\ UNCHANGED <<serverName, now, pendingTasks, taskLog>>

\* callTool after await sendApprovalRequest: the channel accepted (and resolves
\* to the code of this request) or the call threw
SendReply(r, accepted) ==
    /\ At(r, "send")
    /\ LET q == [req[r] EXCEPT !.sendOut = IF accepted THEN "code" ELSE "throw"] IN
       IF ~accepted
       THEN /\ req' = [req EXCEPT ![r] = Finish(q, SetupFailedResult)]
            /\ UNCHANGED pendingTasks
       ELSE /\ pendingTasks' = MapSet(pendingTasks, q.taskId,
                    [toolName |-> q.name, toolArgs |-> q.args, status |-> "PENDING",
                     hitlOobCode |-> OobCode(q.nth)])
            /\ LET q2 == [q EXCEPT !.nSet = @ + 1,
                                   !.grew = q.taskId \notin DOMAIN pendingTasks] IN
               req' = [req EXCEPT ![r] =
                    IF q.token
                    THEN [q2 EXCEPT !.pc = "notify"]
                    ELSE Finish(q2, ReceiptResult(q.name, q.taskId))]
    /\ UNCHANGED <<serverName, now, issued, taskLog>>

\* callTool after await this.server.notification(...)
NotifyReply(r, ok) ==
    /\ At(r, "notify")
    /\ req' = [req EXCEPT ![r] =
            IF ok THEN Finish(@, ReceiptResult(@.name, @.taskId))
            ELSE Finish(@, ThrownResult)]
    /\ UNCHANGED <<serverName, now, pendingTasks, issued, taskLog>>

\* variant: the forwarded result is wrapped like the result of an approved task
FwdReply_Wrapped(r, outcome) ==
    /\ At(r, "fwd")
    /\ req' = [req EXCEPT ![r] =
            IF outcome = "throw" THEN Finish([@ EXCEPT !.downOut = outcome], NullResult)
            ELSE Finish([@ EXCEPT !.downOut = outcome],
                        CompletedResult(DownstreamResult(outcome), @.name))]
    /\ UNCHANGED <<serverName, now, pendingTasks, issued, taskLog>>
\* callTool after await downstreamClient.callTool of a NORMAL tool
FwdReply(r, outcome) ==
    /\ At(r, "fwd")
    /\ req' = [req EXCEPT ![r] =
            IF outcome = "throw" THEN Finish([@ EXCEPT !.downOut = outcome], NullResult)
            ELSE Finish([@ EXCEPT !.downOut = outcome], DownstreamResult(outcome))]
    /\ UNCHANGED <<serverName, now, pendingTasks, issued, taskLog>>

\* variant: the name is not intercepted and goes to the forwarding path of callTool
ReceiveList_Forwarded(r) ==
    /\ NextSlot(r, FALSE)
    /\ req' = [req EXCEPT ![r] =
            [@ EXCEPT !.name = "list_high_risk_tools", !.pc = "fwd", !.nDown = @ + 1,
                      !.call = DownCall("list_high_risk_tools", "none")]]
    /\ UNCHANGED <<serverName, now, pendingTasks, issued, taskLog>>
\* CallToolRequestSchema handler, name === 'list_high_risk_tools'
ReceiveList(r) ==
    /\ NextSlot(r, FALSE)
    /\ req' = [req EXCEPT ![r] =
            Finish([@ EXCEPT !.name = "list_high_risk_tools"], HighRiskListResult)]
    /\ UNCHANGED <<serverName, now, pendingTasks, issued, taskLog>>

(***************************************************************************)
(* check_task_status: the polling loop and handleTaskStatusCheck.          *)
(***************************************************************************)
\* variant: the loop has no deadline (`while (true)`)
WindowOpen_Always(t, startTime) == TRUE
\* Date.now() < (startTime + 10000)
WindowOpen(t, startTime) == t < startTime + WindowMs

\* variant: only the code is tested (`!task.hitlOobCode` alone)
TaskMissing_CodeOnly(task) == task # NoTask /\ task.hitlOobCode = NoCode
\* !task || !task.hitlOobCode
TaskMissing(task) == task = NoTask \/ task.hitlOobCode = NoCode

\* variant: everything but an explicit denial counts as approval
IsApproved_NotDenied(reply) == reply # "DENIED"
\* variant: a resolved checkForApproval counts as approval whatever it returns
IsApproved_AnyValue(reply) == reply # "throw"
\* await checkForApproval(code) == "APPROVED"
IsApproved(reply) == reply = "APPROVED"

\* status && status !== 'PENDING'
LoopReturns(result) == result.status # "none" /\ result.status # "PENDING"

\* the loop body after `await this.handleTaskStatusCheck(...)` has resolved to
\* result: lastresult = result ?? lastresult, then return or sleep
AfterQuery(q, result) ==
    LET q1 == [q EXCEPT !.lastresult = result] IN
    IF LoopReturns(result)
    THEN Finish(q1, result)
    ELSE [q1 EXCEPT !.pc = "sleep", !.wakeAt = now + SleepMs]

\* handleTaskStatusCheck up to its first await
Query(q) ==
    LET task == MapGet(pendingTasks, q.taskId)
        miss == q.taskId \notin DOMAIN pendingTasks
        q1 == [q EXCEPT !.nQuery = @ + 1, !.miss = miss,
                        !.nMiss = @ + (IF miss THEN 1 ELSE 0),
                        !.task = task, !.queried = NoCode, !.reply = "none",
                        !.call = NoCall, !.downOut = "none", !.qDown = 0] IN
    IF TaskMissing(task)
    THEN AfterQuery(q1, NotFoundResult(q.taskId))
    ELSE [q1 EXCEPT !.pc = "chan", !.queried = task.hitlOobCode, !.nChan = @ + 1]

\* variant: nothing is returned after the loop (no `return lastresult`)
LoopHead_ReturnsUndefined(q) ==
    IF WindowOpen(now, q.startTime) THEN Query(q) ELSE Finish(q, NoResult)
\* the head of the while loop
LoopHead(q) ==
    IF WindowOpen(now, q.startTime) THEN Query(q) ELSE Finish(q, q.lastresult)

\* the two names the handler answers itself
SyntheticNames == {"check_task_status", "list_high_risk_tools"}
\* CallToolRequestSchema handler, name === 'check_task_status'
ReceiveCheck(r, argOk, taskId) ==
    /\ NextSlot(r, FALSE)
    /\ LET q == [req[r] EXCEPT !.name = "check_task_status", !.argOk = argOk,
                               !.taskId = taskId, !.startTime = now] IN
       req' = [req EXCEPT ![r] =
            IF ~argOk THEN Finish(q, BadTaskIdResult) ELSE LoopHead(q)]
    /\ UNCHANGED <<serverName, now, pendingTasks, issued, taskLog>>

\* history: the task of this code got execs more downstream calls and these outcomes
Logged(task, execs, outcomes) ==
    [n \in DOMAIN taskLog |->
        IF n = Serial(task.hitlOobCode)
        THEN [execs |-> taskLog[n].execs + execs,
              outcomes |-> taskLog[n].outcomes \cup outcomes]
        ELSE taskLog[n]]

\* handleTaskStatusCheck after await checkForApproval(task.hitlOobCode):
\* reply is "APPROVED", another value, or "throw"
ChanReply(r, reply) ==
    /\ At(r, "chan")
    /\ LET q == [req[r] EXCEPT !.seen = @ \cup {reply}, !.reply = reply]
           task == q.task IN
       IF reply = "throw"
       THEN /\ pendingTasks' = MapDelete(pendingTasks, q.taskId)
            /\ req' = [req EXCEPT ![r] = AfterQuery(q, DeniedResult(q.taskId))]
            /\ taskLog' = Logged(task, 0, {"DENIED"})
       ELSE IF IsApproved(reply)
       THEN /\ req' = [req EXCEPT ![r] =
                   [q EXCEPT !.pc = "down", !.nDown = @ + 1, !.qDown = @ + 1,
                             !.call = DownCall(task.toolName, task.toolArgs)]]
            /\ taskLog' = Logged(task, 1, {})
            /\ UNCHANGED pendingTasks
       ELSE /\ req' = [req EXCEPT ![r] =
                   AfterQuery(q, PendingResult(q.taskId, task.toolName))]
            /\ UNCHANGED <<pendingTasks, taskLog>>
    /\ UNCHANGED <<serverName, now, issued>>

\* handleTaskStatusCheck after await downstreamClient.callTool of the task's tool
DownReply(r, outcome) ==
    /\ At(r, "down")
    /\ LET q == [req[r] EXCEPT !.downOut = outcome,
                              !.seen = @ \cup {IF outcome = "throw" THEN "down_throw"
                                                  ELSE "down_ok"}] IN
       /\ pendingTasks' = MapDelete(pendingTasks, q.taskId)
       /\ req' = [req EXCEPT ![r] =
              IF outcome = "throw"
              THEN AfterQuery(q, DeniedResult(q.taskId))
              ELSE AfterQuery(q, CompletedResult(DownstreamResult(outcome),
                                                 q.task.toolName))]
       /\ taskLog' = Logged(q.task, 0,
                            IF outcome = "throw" THEN {"DENIED"} ELSE {"COMPLETED"})
    /\ UNCHANGED <<serverName, now, issued>>

\* the setTimeout of the loop fires: back to the head of the loop
Wake(r) ==
    /\ At(r, "sleep")
    /\ now >= req[r].wakeAt
    /\ req' = [req EXCEPT ![r] = LoopHead(@)]
    /\ UNCHANGED <<serverName, now, pendingTasks, issued, taskLog>>

\* the wall clock advances
Tick ==
    /\ now < MaxNow
    /\ ~Undelivered
    /\ \E r \in Reqs : req[r].pc \notin {"idle", "done"}
    /\ now' = now + TickMs
    /\ UNCHANGED <<serverName, pendingTasks, req, issued, taskLog>>

\* the response of a finished handler goes out to the caller
Deliver(r) ==
    /\ req[r].pc = "done"
    /\ req' = [req EXCEPT ![r] = IdleReq]
    /\ UNCHANGED <<serverName, now, pendingTasks, issued, taskLog>>

\* the taskIds a caller passes to check_task_status: those it was given, and one
\* that never existed
CheckIds == Range(issued) \cup {UnknownId}

Next ==
    \/ \E r \in Reqs, n \in ToolNames, a \in ArgVals, k \in BOOLEAN, rnd \in Suffixes :
            ReceiveTool(r, n, a, k, rnd)
    \/ \E r \in Reqs : ReceiveList(r)
    \/ \E r \in Reqs, ok \in BOOLEAN, id \in CheckIds : ReceiveCheck(r, ok, id)
    \/ \E r \in Reqs, ok \in BOOLEAN : SendReply(r, ok)
    \/ \E r \in Reqs, ok \in BOOLEAN : NotifyReply(r, ok)
    \/ \E r \in Reqs, o \in DownResults \cup {"throw"} : FwdReply(r, o)
    \/ \E r \in Reqs, c \in {"APPROVED", "WAITING", "throw"} : ChanReply(r, c)
    \/ \E r \in Reqs, o \in DownResults \cup {"throw"} : DownReply(r, o)
    \/ \E r \in Reqs : Wake(r)
    \/ \E r \in Reqs : Deliver(r)
    \/ Tick

Spec == Init /\ [][Next]_vars


(***************************************************************************)
(* Vocabulary of the properties.                                           *)
(***************************************************************************)
\* request r is a check_task_status request with a string taskId
IsCheck(r) == req[r].name = "check_task_status" /\ req[r].argOk
\* request r is an invocation of a tool through callTool
IsInvocation(r) == req[r].name \in ToolNames
Done(r) == req[r].pc = "done"
Live(taskId) == taskId \in DOMAIN pendingTasks
\* the history of the task a status check holds
LogOf(task) == taskLog[Serial(task.hitlOobCode)]
\* every query of request r so far found its task and was told to wait
AllPending(r) == req[r].nQuery >= 1 /\ req[r].nMiss = 0 /\ req[r].seen = {"WAITING"}

(***************************************************************************)
(* C1.  The downstream tool of a task is invoked at most once in total,   *)
(* whatever the interleaving of the status checks for its taskId.         *)
(***************************************************************************)
C1_AtMostOneExecution == \A n \in DOMAIN taskLog : taskLog[n].execs <= 1

C3_DenialReturnsError ==
    \A r \in Reqs :
        Done(r) /\ IsCheck(r) /\ "throw" \in req[r].seen
            => req[r].response.isError /\ ~Live(req[r].taskId)

(***************************************************************************)
(* C4.  A task leaves PENDING at most once: it is never resolved both as  *)
(* COMPLETED and as denied, and once a status check has observed its      *)
(* terminal outcome no other query can still see it in the live set.      *)
(***************************************************************************)
C4_NeverBothOutcomes ==
    \A n \in DOMAIN taskLog : taskLog[n].outcomes # {"COMPLETED", "DENIED"}

C4_ResolvedNotVisible ==
    \A r \in Reqs :
        req[r].pc = "down" => MapGet(pendingTasks, req[r].taskId) # req[r].task

C4_LeavesPendingOnce == C4_NeverBothOutcomes /\ C4_ResolvedNotVisible

(***************************************************************************)
(* C5.  A query for a taskId that is not in the live set answers          *)
(* not-found without asking the channel or the downstream server; a       *)
(* status check all of whose queries found no task returns not-found.     *)
(***************************************************************************)
C5_UnknownIdNotFound ==
    \A r \in Reqs :
        IsCheck(r) =>
            /\ req[r].miss /\ req[r].nQuery >= 1
                => /\ req[r].pc \in {"sleep", "done"}
                   /\ req[r].lastresult = NotFoundResult(req[r].taskId)
                   /\ req[r].queried = NoCode
                   /\ req[r].qDown = 0
            /\ req[r].nMiss = req[r].nQuery
                => /\ req[r].nChan = 0
                   /\ req[r].nDown = 0
                   /\ Done(r) => req[r].response = NotFoundResult(req[r].taskId)

C5_Witness ==
    \E r \in Reqs, n \in DOMAIN taskLog :
        /\ Done(r) /\ IsCheck(r)
        /\ n <= Len(issued) /\ issued[n] = req[r].taskId
        /\ taskLog[n].outcomes = {"DENIED"}
        /\ req[r].nMiss = req[r].nQuery
        /\ req[r].response.kind = "not_found"

(***************************************************************************)
(* C6.  The polling loop returns as soon as a query yields anything other *)
(* than PENDING: it sleeps only after a PENDING observation, and the      *)
(* response is the result of its last query.                              *)
(***************************************************************************)
C6_ReturnsOnNonPending ==
    \A r \in Reqs :
        /\ req[r].pc = "sleep" => req[r].lastresult.status = "PENDING"
        /\ Done(r) /\ IsCheck(r) => req[r].response = req[r].lastresult

(***************************************************************************)
(* C7.  A status check all of whose queries yield PENDING returns, once   *)
(* the window has elapsed, its last PENDING observation, and the task is  *)
(* still live.                                                             *)
(***************************************************************************)
\* as claimed: the task is live when the request returns
C7_PendingReturnsLive ==
    \A r \in Reqs :
        Done(r) /\ IsCheck(r) /\ AllPending(r)
            => /\ req[r].response.status = "PENDING"
               /\ req[r].response = req[r].lastresult
               /\ now >= req[r].startTime + WindowMs
               /\ Live(req[r].taskId)

\* as amended: the task is live unless another status check resolved it meanwhile
C7_PendingReturnsLast ==
    \A r \in Reqs :
        Done(r) /\ IsCheck(r) /\ AllPending(r)
            => /\ req[r].response.status = "PENDING"
               /\ req[r].response = req[r].lastresult
               /\ now >= req[r].startTime + WindowMs
               /\ LogOf(req[r].task).outcomes = {} => Live(req[r].taskId)

C7_Witness ==
    \E r \in Reqs :
        /\ Done(r) /\ IsCheck(r) /\ AllPending(r)
        /\ req[r].nQuery = 3
        /\ req[r].response.status = "PENDING"
        /\ Live(req[r].taskId)

(***************************************************************************)
(* C8.  An invocation of a blocked tool name, also one that is in the     *)
(* high-risk list too, returns isError = true, stores no task, sends no   *)
(* approval request and makes no downstream call.                         *)
(***************************************************************************)
C8_BlockedNoEffect ==
    \A r \in Reqs :
        IsInvocation(r) /\ req[r].name \in MCPServerMap[serverName].BlockedTools
            => /\ Done(r)
               /\ req[r].response.isError
               /\ req[r].response.kind = "blocked"
               /\ req[r].nSet = 0
               /\ req[r].nSend = 0
               /\ req[r].nDown = 0

C8_Witness ==
    \E r \in Reqs :
        /\ Done(r) /\ IsInvocation(r)
        /\ req[r].name \in MCPServerMap[serverName].BlockedTools
        /\ req[r].name \in MCPServerMap[serverName].HighRiskTools
        /\ req[r].response = BlockedResult(req[r].name)
        /\ req[r].nSend = 0 /\ req[r].nSet = 0 /\ req[r].nDown = 0

(***************************************************************************)
(* C9.  An invocation of a HIGH_RISK tool whose approval request the      *)
(* channel accepted makes no downstream call, returns                     *)
(* PENDING_APPROVAL_POLL with a fresh taskId, and adds exactly one        *)
(* PENDING task holding its toolName and arguments to the live set.       *)
(***************************************************************************)
IsHighRiskInvocation(r) ==
    /\ IsInvocation(r)
    /\ req[r].name \in MCPServerMap[serverName].HighRiskTools
    /\ req[r].name \notin MCPServerMap[serverName].BlockedTools

C9_HighRiskReceipt ==
    \A r \in Reqs :
        IsHighRiskInvocation(r) =>
            /\ req[r].nDown = 0
            /\ req[r].response.kind # "downstream"
            /\ Done(r) /\ req[r].nSet > 0
                => /\ req[r].response.status = "PENDING_APPROVAL_POLL"
                   /\ req[r].response.taskId = req[r].taskId
                   /\ req[r].fresh
                   /\ req[r].nSet = 1 /\ req[r].grew
                   /\ Live(req[r].taskId)
                   /\ pendingTasks[req[r].taskId].toolName = req[r].name
                   /\ pendingTasks[req[r].taskId].toolArgs = req[r].args
                   /\ pendingTasks[req[r].taskId].status = "PENDING"

(***************************************************************************)
(* C10.  A downstream call for a task is in flight only inside a status   *)
(* check whose own channel query, made with the task's out-of-band code,  *)
(* returned APPROVED; a query that met a denial or an error calls         *)
(* nothing, and no invocation forwards a HIGH_RISK tool.                  *)
(***************************************************************************)
C10_OnlyApprovedExecutes ==
    \A r \in Reqs :
        /\ req[r].pc = "down"
            => /\ IsCheck(r)
               /\ req[r].reply = "APPROVED"
               /\ req[r].task # NoTask
               /\ req[r].queried = req[r].task.hitlOobCode
               /\ req[r].call = DownCall(req[r].task.toolName, req[r].task.toolArgs)
        /\ IsCheck(r) /\ req[r].reply \in {"WAITING", "throw"} => req[r].qDown = 0
        /\ IsCheck(r) /\ req[r].nDown > 0 => "APPROVED" \in req[r].seen
        /\ IsInvocation(r) /\ req[r].nDown > 0
            => /\ req[r].name \notin MCPServerMap[serverName].HighRiskTools
               /\ req[r].call.name = req[r].name
        /\ ~IsCheck(r) /\ ~IsInvocation(r) => req[r].nDown = 0

C10_Witness ==
    \E r, s \in Reqs :
        /\ req[r].pc = "down" /\ req[r].reply = "APPROVED"
        /\ req[s].pc = "sleep" /\ req[s].reply = "throw"
        /\ req[s].taskId = req[r].taskId

(***************************************************************************)
(* C11.  When sendApprovalRequest throws, the step that sees it changes   *)
(* nothing in the live set, the invocation has made no downstream call    *)
(* and never stored a task, and it returns at once the authorization      *)
(* setup error with isError = true, not a receipt.                        *)
(***************************************************************************)
C11_RejectedCreatesNothing ==
    [][\A r \in Reqs :
          req[r].pc = "send" /\ req'[r].sendOut = "throw"
              => /\ pendingTasks' = pendingTasks
                 /\ req'[r].pc = "done"
                 /\ req'[r].response = SetupFailedResult
                 /\ req'[r].response.isError
                 /\ req'[r].response.status # "PENDING_APPROVAL_POLL"
                 /\ req'[r].nSet = 0
                 /\ req'[r].nDown = 0]_vars

C11_Witness ==
    \E r \in Reqs :
        /\ Done(r) /\ req[r].sendOut = "throw"
        /\ req[r].response.kind = "setup_failed"
        /\ DOMAIN pendingTasks # {}

(***************************************************************************)
(* C12.  The taskId under which an invocation stores its task is not the *)
(* taskId of a task that is live: storing a task never replaces one.      *)
(***************************************************************************)
C12_NeverOverwrites ==
    \A r \in Reqs : req[r].nSet > 0 => req[r].grew

(***************************************************************************)
(* C13.  A request for check_task_status or list_high_risk_tools is never *)
(* on the forwarding path and no downstream call ever carries one of the  *)
(* two names; list_high_risk_tools and a check_task_status without a      *)
(* string taskId make no downstream call at all and store no task, under  *)
(* every configuration.                                                    *)
(***************************************************************************)
C13_SyntheticNeverForwarded ==
    \A r \in Reqs :
        /\ req[r].call.name \notin SyntheticNames
        /\ req[r].task.toolName \notin SyntheticNames
        /\ req[r].name \in SyntheticNames
            => /\ req[r].pc \notin {"fwd", "send", "notify"}
               /\ req[r].nSend = 0 /\ req[r].nSet = 0
               /\ req[r].nDown > 0 => req[r].call.name = req[r].task.toolName
        /\ req[r].name = "list_high_risk_tools"
            => /\ req[r].nDown = 0
               /\ Done(r) /\ req[r].response = HighRiskListResult
        /\ req[r].name = "check_task_status" /\ ~req[r].argOk
            => /\ req[r].nDown = 0 /\ req[r].nQuery = 0
               /\ Done(r) /\ req[r].response = BadTaskIdResult

C13_Witness ==
    /\ serverName = "overlap-mcp-server"
    /\ req[1].name = "check_task_status" /\ ~req[1].argOk /\ Done(1)
    /\ DOMAIN pendingTasks # {}

(***************************************************************************)
(* C14.  An invocation of a NORMAL tool makes exactly one downstream call *)
(* with the given name and arguments, stores no task, sends no approval   *)
(* request, and when the call returns a result it returns that result     *)
(* unmodified.                                                             *)
(***************************************************************************)
IsNormalInvocation(r) == IsInvocation(r) /\ Classify(req[r].name) = "NORMAL"

C14_NormalForwarded ==
    \A r \in Reqs :
        IsNormalInvocation(r) =>
            /\ req[r].pc \in {"fwd", "done"}
            /\ req[r].nDown = 1
            /\ req[r].call = DownCall(req[r].name, req[r].args)
            /\ req[r].nSend = 0 /\ req[r].nSet = 0
            /\ Done(r) /\ req[r].downOut # "throw"
                => /\ req[r].downOut \in DownResults
                   /\ req[r].response = DownstreamResult(req[r].downOut)

C14_Witness ==
    \E r \in Reqs :
        /\ IsNormalInvocation(r) /\ Done(r)
        /\ req[r].args = "y"
        /\ req[r].downOut = "res_toolerr"
        /\ req[r].response.isError
        /\ DOMAIN pendingTasks # {}

(***************************************************************************)
(* C15.  When the downstream call of a NORMAL invocation throws, the      *)
(* invocation returns a result marked as an error, after one call and     *)
(* without an exception.                                                   *)
(***************************************************************************)
C15_FailureIsErrorResult ==
    \A r \in Reqs :
        IsNormalInvocation(r) /\ Done(r) /\ req[r].downOut = "throw"
            => /\ req[r].response.isError
               /\ req[r].response.kind # "exception"
               /\ req[r].nDown = 1

(***************************************************************************)
(* C16.  A status check that was told APPROVED and whose downstream call  *)
(* threw returns an error result reporting the failure, having made that  *)
(* one downstream call only.                                               *)
(***************************************************************************)
C16_DownstreamFailureReported ==
    \A r \in Reqs :
        IsCheck(r) /\ Done(r) /\ "down_throw" \in req[r].seen
            => /\ req[r].response.isError
               /\ req[r].nDown = 1

(***************************************************************************)
(* C17.  While a status check is asleep between two polling attempts, a   *)
(* new request of any kind can be received on a free slot, and every      *)
(* other request in flight can take its next step, at the same clock      *)
(* value: none of them waits for the sleeper's window.                    *)
(***************************************************************************)
\* the arrivals the model explores next to a request in flight
Overlap(generating) == Len(issued) + (IF generating THEN 1 ELSE 0) <= 1

C17_SleepDoesNotBlock ==
    \A r \in Reqs :
        req[r].pc = "sleep" /\ ~Undelivered =>
            \A s \in Reqs \ {r} :
                /\ req[s].pc = "idle" /\ Overlap(FALSE)
                    => /\ ENABLED ReceiveList(s)
                       /\ ENABLED ReceiveTool(s, "get_todos", "x", FALSE, 1)
                       /\ ENABLED ReceiveTool(s, "welcome_to_okta", "x", FALSE, 1)
                       /\ ENABLED ReceiveCheck(s, TRUE, req[r].taskId)
                       /\ ENABLED ReceiveCheck(s, TRUE, UnknownId)
                /\ req[s].pc = "idle" /\ Overlap(TRUE)
                    => ENABLED ReceiveTool(s, "add_todos", "x", FALSE, 1)
                /\ req[s].pc = "send" => ENABLED SendReply(s, TRUE)
                /\ req[s].pc = "notify" => ENABLED NotifyReply(s, TRUE)
                /\ req[s].pc = "fwd" => ENABLED FwdReply(s, "res_ok")
                /\ req[s].pc = "chan" => ENABLED ChanReply(s, "APPROVED")
                /\ req[s].pc = "down" => ENABLED DownReply(s, "res_ok")

\* a status check started after the sleeper has completed while the sleeper
\* is still asleep and inside its window
C17_Witness ==
    \E r, s \in Reqs :
        /\ req[r].pc = "sleep" /\ now < req[r].wakeAt
        /\ now < req[r].startTime + WindowMs
        /\ Done(s) /\ IsCheck(s) /\ req[s].taskId = req[r].taskId
        /\ req[s].startTime > req[r].startTime
        /\ req[s].response.status = "COMPLETED"

(***************************************************************************)
(* C18.  A query whose checkForApproval returns a value other than        *)
(* APPROVED without throwing answers the PENDING result for its task,     *)
(* leaves the live set exactly as it was and makes no downstream call;    *)
(* and every task of the live set has status PENDING and an out-of-band   *)
(* code.                                                                   *)
(***************************************************************************)
PendingKeepsLiveSet ==
    \A r \in Reqs :
        req[r].pc = "chan" /\ req'[r].pc # "chan" /\ req'[r].reply = "WAITING"
            => /\ pendingTasks' = pendingTasks
               /\ taskLog' = taskLog
               /\ req'[r].lastresult = PendingResult(req[r].taskId, req[r].task.toolName)
               /\ req'[r].lastresult.status = "PENDING"
               /\ req'[r].pc = "sleep"
               /\ req'[r].qDown = 0
               /\ req'[r].nDown = req[r].nDown

LiveTasksPending ==
    \A t \in DOMAIN pendingTasks :
        /\ pendingTasks[t].status = "PENDING"
        /\ pendingTasks[t].hitlOobCode # NoCode
        /\ pendingTasks[t].toolName \in ToolNames
        /\ pendingTasks[t].toolArgs \in ArgVals

C18_PendingLeavesTask == [][PendingKeepsLiveSet]_vars /\ []LiveTasksPending

C18_Witness ==
    \E r \in Reqs :
        /\ req[r].pc = "sleep" /\ req[r].reply = "WAITING" /\ req[r].nQuery = 2
        /\ Live(req[r].taskId)
        /\ pendingTasks[req[r].taskId] = req[r].task
        /\ req[r].task.toolArgs = "y"

(***************************************************************************)
(* C19.  A check_task_status request with a string taskId makes at least  *)
(* one query and at most three, starts a query only while less than the   *)
(* window has elapsed since it began, never returns an empty response,    *)
(* and terminates when its awaited calls settle: each of its steps is     *)
(* enabled once the call or the timer it waits for is due, and each step  *)
(* brings it strictly closer to its return.                                *)
(***************************************************************************)
\* queries of one request when they take no time: one every SleepMs inside WindowMs
MaxQueries == (WindowMs + SleepMs - 1) \div SleepMs

\* how far a status check has come: its queries, and its position inside one
Rank(q) ==
    CASE q.pc = "done" -> 3 * MaxQueries + 3
      [] q.pc = "chan" -> 3 * q.nQuery
      [] q.pc = "down" -> 3 * q.nQuery + 1
      [] q.pc = "sleep" -> 3 * q.nQuery + 2
      [] OTHER -> 0

BoundedPolling ==
    \A r \in Reqs :
        IsCheck(r) /\ req[r].pc # "idle"
            => /\ req[r].nQuery >= 1
               /\ req[r].nQuery <= MaxQueries
               /\ req[r].pc \in {"chan", "down", "sleep", "done"}
               /\ Done(r) => /\ req[r].response # NoResult
                             /\ req[r].response.kind # "undefined"
                             /\ req[r].response = req[r].lastresult
               /\ req[r].pc = "sleep" => req[r].wakeAt <= now + SleepMs
               /\ ~Undelivered =>
                    /\ req[r].pc = "chan" => ENABLED ChanReply(r, "WAITING")
                    /\ req[r].pc = "down" => ENABLED DownReply(r, "res_ok")
                    /\ req[r].pc = "sleep" /\ now >= req[r].wakeAt => ENABLED Wake(r)

QueryInsideWindow ==
    \A r \in Reqs :
        req'[r].nQuery > req[r].nQuery
            => /\ now < req'[r].startTime + WindowMs
               /\ req'[r].nQuery = req[r].nQuery + 1

PollingAdvances ==
    \A r \in Reqs :
        IsCheck(r) /\ req[r].pc \in {"chan", "down", "sleep"} /\ req'[r] # req[r]
            => Rank(req'[r]) > Rank(req[r])

C19_PollingTerminates ==
    /\ []BoundedPolling
    /\ [][QueryInsideWindow /\ PollingAdvances]_vars

C19_Witness ==
    \E r \in Reqs :
        /\ IsCheck(r) /\ Done(r)
        /\ req[r].nQuery = MaxQueries
        /\ now >= req[r].startTime + WindowMs
        /\ req[r].response.status = "PENDING"

(***************************************************************************)
(* C20.  After a HIGH_RISK invocation has finished, the task it stored is *)
(* live only if the invocation returned the pending receipt carrying the  *)
(* task's taskId.                                                          *)
(***************************************************************************)
C20_LiveOnlyIfReturned ==
    \A r \in Reqs :
        (/\ IsHighRiskInvocation(r) /\ Done(r) /\ req[r].nSet > 0
         /\ Live(req[r].taskId)
         /\ pendingTasks[req[r].taskId].hitlOobCode = OobCode(req[r].nth))
            => /\ req[r].response.kind = "receipt"
               /\ req[r].response.taskId = req[r].taskId

====
